---- MODULE Spec2Model ----
(***************************************************************************)
(* Finite partial orders (crate fin-part-ord).                             *)
(*                                                                         *)
(* Two implementations of the trait FinPartOrd are modelled side by side:  *)
(*   PairPartOrd (src/src/pairs.rs): a vector of pairs, queried by a       *)
(*     recursive chase that keeps no visited set;                          *)
(*   DagPartOrd  (src/src/dag.rs): a daggy Dag plus a HashMap from element *)
(*     to NodeIndex, queried by petgraph's Dfs.                            *)
(* A caller holds one instance of each and applies the same add calls to   *)
(* both.  add consumes its receiver, so the caller passes a clone and      *)
(* keeps the instance it had when add does not return Ok.                  *)
(***************************************************************************)
EXTENDS Integers, Sequences, FiniteSets

\* Number of distinct element values the caller draws from.
NumElems == 3
\* The caller stops calling add once this many pairs are stored.
MaxPairs == 3

Elems == 0 .. (NumElems - 1)

VARIABLES
    ppo,         \* the caller's PairPartOrd: its field pairs, a sequence of Pair
    dpo,         \* the caller's DagPartOrd: [nodes, edges, ids]
    call,        \* arguments of the last add call: <<>> or <<lo, hi>>
    pairResult,  \* outcome of the last PairPartOrd::add: None, Ok, Err, Overflow
    dagResult,   \* outcome of the last DagPartOrd::add: None, Ok, Err
    declared,    \* history: pairs (lo # hi) whose PairPartOrd::add returned Ok
    dagDeclared, \* history: pairs (lo # hi) whose DagPartOrd::add returned Ok
    mentioned    \* history: every element passed to an add call

vars == <<ppo, dpo, call, pairResult, dagResult, declared, dagDeclared, mentioned>>

\* Result<bool, Error> values of lt / le, and the case that the call never
\* returns because the recursion exhausts the stack (the process aborts).
OkTrue == "Ok(true)"
OkFalse == "Ok(false)"
Overflow == "Overflow"

----------------------------------------------------------------------------
(* trait.rs *)

\* FinPartOrd::le is the provided method: equal arguments short-circuit,
\* otherwise the implementation's lt decides.

\* Variant: le that never asks lt.
Le_NoDelegate(ltResult, lo, hi) == IF lo = hi THEN OkTrue ELSE OkFalse

\* Variant: le without the short-circuit for equal arguments.
Le_NoShortCircuit(ltResult, lo, hi) == ltResult

\* FinPartOrd::le
Le(ltResult, lo, hi) == IF lo = hi THEN OkTrue ELSE ltResult

----------------------------------------------------------------------------
(* pairs.rs *)

Pair(lo, hi) == [lo |-> lo, hi |-> hi]

PairEmpty == << >>

\* The for loop of PairPartOrd::lt from position i on, in a call nested d
\* levels below the caller's call.  Each nested call follows one stored pair,
\* so a call nested deeper than Len(pairs) has followed some pair twice: the
\* same call lt(p.hi, hi) is then nested inside itself, the recursion never
\* returns and the stack is exhausted.
\* Variant: lt without the recursive chase (stored pairs only).
RECURSIVE PairLtFrom_NoChase(_, _, _, _, _)
PairLtFrom_NoChase(pairs, lo, hi, i, d) ==
    IF i > Len(pairs) THEN OkFalse
    ELSE IF pairs[i].lo = lo /\ pairs[i].hi = hi THEN OkTrue
    ELSE PairLtFrom_NoChase(pairs, lo, hi, i + 1, d)

\* Variant: lt that returns the outcome of the first chase instead of going
\* on to the next stored pair when the chase fails.
RECURSIVE PairLtFrom_FirstOnly(_, _, _, _, _)
PairLtFrom_FirstOnly(pairs, lo, hi, i, d) ==
    IF i > Len(pairs) THEN OkFalse
    ELSE IF pairs[i].lo = lo
         THEN IF pairs[i].hi = hi THEN OkTrue
              ELSE IF d >= Len(pairs) THEN Overflow
              ELSE PairLtFrom_FirstOnly(pairs, pairs[i].hi, hi, 1, d + 1)
         ELSE PairLtFrom_FirstOnly(pairs, lo, hi, i + 1, d)

\* PairPartOrd::lt, loop and chase
RECURSIVE PairLtFrom(_, _, _, _, _)
PairLtFrom(pairs, lo, hi, i, d) ==
    IF i > Len(pairs) THEN OkFalse
    ELSE IF pairs[i].lo = lo
         THEN IF pairs[i].hi = hi THEN OkTrue
              ELSE IF d >= Len(pairs) THEN Overflow
              ELSE LET b == PairLtFrom(pairs, pairs[i].hi, hi, 1, d + 1)
                   IN  IF b = Overflow THEN Overflow
                       ELSE IF b = OkTrue THEN OkTrue
                       ELSE PairLtFrom(pairs, lo, hi, i + 1, d)
         ELSE PairLtFrom(pairs, lo, hi, i + 1, d)

PairLt(pairs, lo, hi) == PairLtFrom(pairs, lo, hi, 1, 0)

PairLe(pairs, lo, hi) == Le(PairLt(pairs, lo, hi), lo, hi)

\* The for loop of PairPartOrd::check from position i on.
RECURSIVE PairCheckFrom(_, _)
PairCheckFrom(pairs, i) ==
    IF i > Len(pairs) THEN OkTrue
    ELSE IF pairs[i].lo = pairs[i].hi THEN OkFalse
    ELSE LET a == PairLt(pairs, pairs[i].lo, pairs[i].lo)
         IN  IF a = Overflow THEN Overflow
             ELSE IF a = OkTrue THEN OkFalse
             ELSE LET b == PairLt(pairs, pairs[i].hi, pairs[i].hi)
                  IN  IF b = Overflow THEN Overflow
                      ELSE IF b = OkTrue THEN OkFalse
                      ELSE PairCheckFrom(pairs, i + 1)

PairCheck(pairs) == PairCheckFrom(pairs, 1)

\* PairPartOrd::valid: check().unwrap_or(false)
PairValid(pairs) == PairCheck(pairs)

\* PairPartOrd::add on the receiver self.  inst is the Option of the returned
\* instance: Err carries none, and an aborted call returns nothing.
\* Variant: add without the call of valid.
PairAdd_NoValid(self, lo, hi) ==
    IF lo = hi THEN [res |-> "Ok", inst |-> <<self>>]
    ELSE [res |-> "Ok", inst |-> <<Append(self, Pair(lo, hi))>>]

\* Variant: add that pushes Pair::new(hi, lo).
PairAdd_Swapped(self, lo, hi) ==
    IF lo = hi THEN [res |-> "Ok", inst |-> <<self>>]
    ELSE LET pushed == Append(self, Pair(hi, lo))
             v == PairValid(pushed)
         IN  IF v = Overflow THEN [res |-> Overflow, inst |-> << >>]
             ELSE IF v = OkFalse THEN [res |-> "Err", inst |-> << >>]
             ELSE [res |-> "Ok", inst |-> <<pushed>>]

\* Variant: add without the early return for lo == hi.
PairAdd_NoElide(self, lo, hi) ==
    LET pushed == Append(self, Pair(lo, hi))
        v == PairValid(pushed)
    IN  IF v = Overflow THEN [res |-> Overflow, inst |-> << >>]
        ELSE IF v = OkFalse THEN [res |-> "Err", inst |-> << >>]
        ELSE [res |-> "Ok", inst |-> <<pushed>>]

\* PairPartOrd::add
PairAdd(self, lo, hi) ==
    IF lo = hi THEN [res |-> "Ok", inst |-> <<self>>]
    ELSE LET pushed == Append(self, Pair(lo, hi))
             v == PairValid(pushed)
         IN  IF v = Overflow THEN [res |-> Overflow, inst |-> << >>]
             ELSE IF v = OkFalse THEN [res |-> "Err", inst |-> << >>]
             ELSE [res |-> "Ok", inst |-> <<pushed>>]

----------------------------------------------------------------------------
(* dag.rs, with the parts of daggy's Dag and petgraph's Dfs that it calls.  *)
(* A NodeIndex is a position in nodes (counted from 1); nodes[n] is the     *)
(* weight of node n; an edge is <<source, target>>, in insertion order.     *)

DagNew == [nodes |-> << >>, edges |-> << >>]

HashMapNew == << >>

DagEmpty == [dag |-> DagNew, ids |-> HashMapNew]

\* Dag::add_node: the new node's index is returned.
DagAddNode(dag, weight) ==
    [dag |-> [dag EXCEPT !.nodes = Append(@, weight)], id |-> Len(dag.nodes) + 1]

\* HashMap::insert
HashMapInsert(ids, key, id) ==
    [k \in (DOMAIN ids) \cup {key} |-> IF k = key THEN id ELSE ids[k]]

\* The targets of the edges leaving n, most recently added edge first, from
\* edge position i downwards (petgraph walks a node's edge list from its head).
RECURSIVE NeighborsFrom(_, _, _)
NeighborsFrom(dag, n, i) ==
    IF i = 0 THEN << >>
    ELSE IF dag.edges[i][1] = n
         THEN <<dag.edges[i][2]>> \o NeighborsFrom(dag, n, i - 1)
         ELSE NeighborsFrom(dag, n, i - 1)

\* Variant: the sources of the edges entering n (edge direction confused).
RECURSIVE IncomingFrom(_, _, _)
IncomingFrom(dag, n, i) ==
    IF i = 0 THEN << >>
    ELSE IF dag.edges[i][2] = n
         THEN <<dag.edges[i][1]>> \o IncomingFrom(dag, n, i - 1)
         ELSE IncomingFrom(dag, n, i - 1)

Neighbors_Incoming(dag, n) == IncomingFrom(dag, n, Len(dag.edges))

\* neighbors of n: outgoing edges
Neighbors(dag, n) == NeighborsFrom(dag, n, Len(dag.edges))

\* Dfs::new: the start node on the stack, nothing discovered.
DfsNew(start) == [stack |-> <<start>>, discovered |-> {}]

\* The successors in succs that are not discovered, pushed in order.
RECURSIVE PushUndiscovered(_, _, _)
PushUndiscovered(stack, succs, discovered) ==
    IF succs = << >> THEN stack
    ELSE PushUndiscovered(
             IF Head(succs) \in discovered THEN stack ELSE Append(stack, Head(succs)),
             Tail(succs), discovered)

\* Dfs::next: pop until a node not yet discovered comes up; mark it, push its
\* undiscovered successors and return it.  node is the Option of the result.
RECURSIVE DfsNext(_, _)
DfsNext(dag, dfs) ==
    IF dfs.stack = << >> THEN [node |-> << >>, dfs |-> dfs]
    ELSE LET node == dfs.stack[Len(dfs.stack)]
             rest == SubSeq(dfs.stack, 1, Len(dfs.stack) - 1)
         IN  IF node \notin dfs.discovered
             THEN LET disc == dfs.discovered \cup {node}
                  IN  [node |-> <<node>>,
                       dfs |-> [stack |-> PushUndiscovered(rest, Neighbors(dag, node), disc),
                                discovered |-> disc]]
             ELSE DfsNext(dag, [stack |-> rest, discovered |-> dfs.discovered])

\* The loop `while let Some(n) = dfs.next(..) { if n == target { return true } }`.
RECURSIVE DfsFinds(_, _, _)
DfsFinds(dag, dfs, target) ==
    LET r == DfsNext(dag, dfs)
    IN  IF r.node = << >> THEN FALSE
        ELSE IF r.node[1] = target THEN TRUE
        ELSE DfsFinds(dag, r.dfs, target)

\* petgraph::algo::has_path_connecting
HasPathConnecting(dag, from, to) == DfsFinds(dag, DfsNew(from), to)

\* daggy's must_check_for_cycle: a new edge a -> b can close a cycle only if
\* a has a parent, b has a child and no edge a -> b exists yet.
MustCheckForCycle(dag, a, b) ==
    \/ a = b
    \/ /\ \E i \in 1 .. Len(dag.edges) : dag.edges[i][2] = a
       /\ \E i \in 1 .. Len(dag.edges) : dag.edges[i][1] = b
       /\ ~ \E i \in 1 .. Len(dag.edges) : dag.edges[i] = <<a, b>>

\* Variant: add_edge that looks for a path from a to b instead of b to a.
DagAddEdge_WrongDirection(dag, a, b) ==
    IF HasPathConnecting(dag, a, b)
    THEN [res |-> "Err", dag |-> dag]
    ELSE [res |-> "Ok", dag |-> [dag EXCEPT !.edges = Append(@, <<a, b>>)]]

\* Variant: add_edge that inserts the edge, finds the cycle and leaves the edge in.
DagAddEdge_NoRollback(dag, a, b) ==
    IF MustCheckForCycle(dag, a, b) /\ HasPathConnecting(dag, b, a)
    THEN [res |-> "Err", dag |-> [dag EXCEPT !.edges = Append(@, <<a, b>>)]]
    ELSE [res |-> "Ok", dag |-> [dag EXCEPT !.edges = Append(@, <<a, b>>)]]

\* Dag::add_edge: WouldCycle and no change when b already reaches a.
DagAddEdge(dag, a, b) ==
    IF MustCheckForCycle(dag, a, b) /\ HasPathConnecting(dag, b, a)
    THEN [res |-> "Err", dag |-> dag]
    ELSE [res |-> "Ok", dag |-> [dag EXCEPT !.edges = Append(@, <<a, b>>)]]

\* Variant: a node is added for x without looking x up in ids first.
DagNodeOf_AlwaysNew(self, x) ==
    LET n == DagAddNode(self.dag, x)
    IN  [self |-> [dag |-> n.dag, ids |-> HashMapInsert(self.ids, x, n.id)],
         idx |-> n.id]

\* The `match self.ids.get(&x)` of DagPartOrd::add: the node of x, added to
\* the graph and the index when x is new.
DagNodeOf(self, x) ==
    IF x \in DOMAIN self.ids
    THEN [self |-> self, idx |-> self.ids[x]]
    ELSE LET n == DagAddNode(self.dag, x)
         IN  [self |-> [dag |-> n.dag, ids |-> HashMapInsert(self.ids, x, n.id)],
              idx |-> n.id]

\* DagPartOrd::add on the receiver self.  inst is the Option of the returned
\* instance; self is the receiver (graph and index) as the body of add left
\* it at the moment of return.
DagAdd(self, lo, hi) ==
    IF lo = hi THEN [res |-> "Ok", inst |-> <<self>>, self |-> self]
    ELSE LET l == DagNodeOf(self, lo)
             h == DagNodeOf(l.self, hi)
             e == DagAddEdge(h.self.dag, l.idx, h.idx)
             left == [dag |-> e.dag, ids |-> h.self.ids]
         IN  IF e.res = "Err" THEN [res |-> "Err", inst |-> << >>, self |-> left]
             ELSE [res |-> "Ok", inst |-> <<left>>, self |-> left]

\* Variant: lt answering Ok(true) for an element missing from ids.
DagLt_UnknownTrue(self, lo, hi) ==
    IF lo \in DOMAIN self.ids /\ hi \in DOMAIN self.ids
    THEN IF DfsFinds(self.dag, DfsNew(self.ids[lo]), self.ids[hi]) THEN OkTrue ELSE OkFalse
    ELSE OkTrue

\* Variant: lt that leaves the start node out of the search.
DagLt_Strict(self, lo, hi) ==
    IF lo \in DOMAIN self.ids /\ hi \in DOMAIN self.ids /\ lo # hi
    THEN IF DfsFinds(self.dag, DfsNew(self.ids[lo]), self.ids[hi]) THEN OkTrue ELSE OkFalse
    ELSE OkFalse

\* DagPartOrd::lt
DagLt(self, lo, hi) ==
    IF lo \in DOMAIN self.ids /\ hi \in DOMAIN self.ids
    THEN IF DfsFinds(self.dag, DfsNew(self.ids[lo]), self.ids[hi]) THEN OkTrue ELSE OkFalse
    ELSE OkFalse

DagLe(self, lo, hi) == Le(DagLt(self, lo, hi), lo, hi)

----------------------------------------------------------------------------
(* The caller *)

Init ==
    /\ ppo = PairEmpty
    /\ dpo = DagEmpty
    /\ call = << >>
    /\ pairResult = "None"
    /\ dagResult = "None"
    /\ declared = {}
    /\ dagDeclared = {}
    /\ mentioned = {}

\* One add(lo, hi) on a clone of each instance.  The caller keeps the returned
\* instance on Ok and the instance it had otherwise.  When PairPartOrd::add
\* exhausts the stack the process aborts and no further call is made.
Add(lo, hi) ==
    /\ pairResult # Overflow
    /\ Len(ppo) < MaxPairs
    /\ \E pr \in {PairAdd(ppo, lo, hi)}, dr \in {DagAdd(dpo, lo, hi)} :
           /\ ppo' = IF pr.res = "Ok" THEN pr.inst[1] ELSE ppo
           /\ dpo' = IF dr.res = "Ok" THEN dr.inst[1] ELSE dpo
           /\ pairResult' = pr.res
           /\ dagResult' = dr.res
           /\ declared' = IF pr.res = "Ok" /\ lo # hi
                          THEN declared \cup {<<lo, hi>>} ELSE declared
           /\ dagDeclared' = IF dr.res = "Ok" /\ lo # hi
                             THEN dagDeclared \cup {<<lo, hi>>} ELSE dagDeclared
    /\ call' = <<lo, hi>>
    /\ mentioned' = mentioned \cup {lo, hi}

Next == \E lo \in Elems, hi \in Elems : Add(lo, hi)

Spec == Init /\ [][Next]_vars

\* A caller that uses PairPartOrd alone: the same add on a clone of its
\* instance, the DagPartOrd left at empty().
PairOnlyAdd(lo, hi) ==
    /\ pairResult # Overflow
    /\ Len(ppo) < MaxPairs
    /\ \E pr \in {PairAdd(ppo, lo, hi)} :
           /\ ppo' = IF pr.res = "Ok" THEN pr.inst[1] ELSE ppo
           /\ pairResult' = pr.res
           /\ declared' = IF pr.res = "Ok" /\ lo # hi
                          THEN declared \cup {<<lo, hi>>} ELSE declared
    /\ call' = <<lo, hi>>
    /\ mentioned' = mentioned \cup {lo, hi}
    /\ UNCHANGED <<dpo, dagResult, dagDeclared>>

PairNext == \E lo \in Elems, hi \in Elems : PairOnlyAdd(lo, hi)

PairSpec == Init /\ [][PairNext]_vars

----------------------------------------------------------------------------
(* Vocabulary of the properties *)

\* A chain of one or more pairs of D leads from a to b (at most n pairs long).
RECURSIVE ChainWithin(_, _, _, _)
ChainWithin(D, a, b, n) ==
    /\ n > 0
    /\ \/ <<a, b>> \in D
       \/ \E c \in Elems : <<a, c>> \in D /\ ChainWithin(D, c, b, n - 1)

Chain(D, a, b) == ChainWithin(D, a, b, Cardinality(D))

\* The elements that occur in a pair of D.
Occurring(D) == {e \in Elems : \E p \in D : p[1] = e \/ p[2] = e}

AsResult(b) == IF b THEN OkTrue ELSE OkFalse

----------------------------------------------------------------------------
(* Properties *)

\* C1 (antisymmetry): in every instance reached by successful adds, of
\* either representation, le(x,y) and le(y,x) both true imply x = y.
C1_Antisymmetry ==
    \A x \in Elems, y \in Elems :
        /\ (PairLe(ppo, x, y) = OkTrue /\ PairLe(ppo, y, x) = OkTrue) => x = y
        /\ (DagLe(dpo, x, y) = OkTrue /\ DagLe(dpo, y, x) = OkTrue) => x = y

\* Two distinct elements ordered through a chain of two stored pairs, in one
\* direction only, in both representations.
C1_Witness ==
    \E x \in Elems, y \in Elems :
        /\ x # y /\ <<x, y>> \notin declared
        /\ PairLe(ppo, x, y) = OkTrue /\ PairLe(ppo, y, x) = OkFalse
        /\ DagLe(dpo, x, y) = OkTrue /\ DagLe(dpo, y, x) = OkFalse

\* C2 (transitivity): in every instance reached by successful adds, of
\* either representation, le(x,y) and le(y,z) imply le(x,z).
C2_Transitivity ==
    \A x \in Elems, y \in Elems, z \in Elems :
        /\ (PairLe(ppo, x, y) = OkTrue /\ PairLe(ppo, y, z) = OkTrue)
               => PairLe(ppo, x, z) = OkTrue
        /\ (DagLe(dpo, x, y) = OkTrue /\ DagLe(dpo, y, z) = OkTrue)
               => DagLe(dpo, x, z) = OkTrue

\* Three distinct elements x, y, z with le(x,y) and le(y,z) in both
\* representations, where (x,z) itself was never declared.
C2_Witness ==
    \E x \in Elems, y \in Elems, z \in Elems :
        /\ x # y /\ y # z /\ x # z /\ <<x, z>> \notin declared
        /\ PairLe(ppo, x, y) = OkTrue /\ PairLe(ppo, y, z) = OkTrue
        /\ DagLe(dpo, x, y) = OkTrue /\ DagLe(dpo, y, z) = OkTrue

\* C3 (rejection on cycle attempt): an add(lo,hi) with lo # hi on an instance
\* in which hi already precedes lo returns the structural-violation error, in
\* both representations.  (An add that is not Ok leaves the caller's instance
\* as it was, so hi precedes lo in it after the call as before.)
C3_CycleAttemptRejected ==
    (call # << >> /\ call[1] # call[2]) =>
        /\ PairLe(ppo, call[2], call[1]) = OkTrue => pairResult = "Err"
        /\ DagLe(dpo, call[2], call[1]) = OkTrue => dagResult = "Err"

\* C4 (termination): every add, lt and le call of PairPartOrd returns; the
\* chase of lt, also the one validation runs inside add, never nests deeper
\* than the number of stored pairs (nesting beyond that is Overflow here).
C4_PairCallsReturn ==
    /\ pairResult # Overflow
    /\ \A x \in Elems, y \in Elems :
           PairLt(ppo, x, y) # Overflow /\ PairLe(ppo, x, y) # Overflow

\* C5 (insertion soundness): when add(x,y) returns Ok(p), p.le(x,y) is true
\* and p.le(y,x) is false unless x = y, in both representations.
C5_InsertionSoundness ==
    call # << >> =>
        /\ pairResult = "Ok" =>
              /\ PairLe(ppo, call[1], call[2]) = OkTrue
              /\ call[1] = call[2] \/ PairLe(ppo, call[2], call[1]) = OkFalse
        /\ dagResult = "Ok" =>
              /\ DagLe(dpo, call[1], call[2]) = OkTrue
              /\ call[1] = call[2] \/ DagLe(dpo, call[2], call[1]) = OkFalse

\* A successful add of a pair of distinct elements onto an instance that
\* already stores pairs, in both representations.
C5_Witness ==
    /\ call # << >> /\ call[1] # call[2]
    /\ pairResult = "Ok" /\ dagResult = "Ok"
    /\ Len(ppo) >= 2 /\ Len(dpo.dag.edges) >= 2

\* C6 (a failed add corrupts nothing): when add on a clone returns the error,
\* the call returns no instance and the caller's instance holds the pairs /
\* graph and index it held before; where add(x,y) had succeeded and add(y,x)
\* fails, le(x,y) is true and le(y,x) is false in it.
C6_FailedAddKeepsInstance ==
    [][ /\ pairResult' = "Err" =>
              /\ ppo' = ppo
              /\ PairAdd(ppo, call'[1], call'[2]).inst = << >>
              /\ \A x \in Elems, y \in Elems :
                     (<<x, y>> \in declared /\ call' = <<y, x>>) =>
                         /\ PairLe(ppo', x, y) = OkTrue
                         /\ PairLe(ppo', y, x) = OkFalse
        /\ dagResult' = "Err" =>
              /\ dpo' = dpo
              /\ DagAdd(dpo, call'[1], call'[2]).inst = << >>
              /\ \A x \in Elems, y \in Elems :
                     (<<x, y>> \in dagDeclared /\ call' = <<y, x>>) =>
                         /\ DagLe(dpo', x, y) = OkTrue
                         /\ DagLe(dpo', y, x) = OkFalse
      ]_vars

\* add(x,y) succeeded earlier and the last call, add(y,x), failed in both
\* representations.
C6_Witness ==
    /\ pairResult = "Err" /\ dagResult = "Err"
    /\ <<call[2], call[1]>> \in declared
    /\ <<call[2], call[1]>> \in dagDeclared

\* C7 (cross-representation equivalence): every add has the same outcome in
\* PairPartOrd and in DagPartOrd, and the two instances agree on every le.
C7_SameOutcomeSameLe ==
    /\ pairResult = dagResult
    /\ \A x \in Elems, y \in Elems : PairLe(ppo, x, y) = DagLe(dpo, x, y)

\* C8 as stated (lt is strict precedence): in both representations lt(lo,hi)
\* is true iff lo # hi and a chain of declared pairs leads from lo to hi.
C8_LtStrictPrecedence ==
    \A lo \in Elems, hi \in Elems :
        /\ PairLt(ppo, lo, hi) = AsResult(lo # hi /\ Chain(declared, lo, hi))
        /\ DagLt(dpo, lo, hi) = AsResult(lo # hi /\ Chain(dagDeclared, lo, hi))

\* C8 as amended: for lo # hi, lt(lo,hi) is true iff a chain of declared
\* pairs leads from lo to hi, in both representations; PairPartOrd::lt(x,x)
\* is false, and DagPartOrd::lt(x,x) is true iff x occurs in a declared pair.
C8_LtPrecedence ==
    \A lo \in Elems, hi \in Elems :
        /\ PairLt(ppo, lo, hi) = AsResult(lo # hi /\ Chain(declared, lo, hi))
        /\ DagLt(dpo, lo, hi) =
               IF lo # hi THEN AsResult(Chain(dagDeclared, lo, hi))
               ELSE AsResult(lo \in Occurring(dagDeclared))

\* lt is true through a chain of two pairs in both representations, and
\* DagPartOrd::lt(x,x) is true for a stored element.
C8_Witness ==
    \E lo \in Elems, hi \in Elems :
        /\ lo # hi /\ <<lo, hi>> \notin declared
        /\ PairLt(ppo, lo, hi) = OkTrue /\ DagLt(dpo, lo, hi) = OkTrue
        /\ DagLt(dpo, lo, lo) = OkTrue /\ PairLt(ppo, lo, lo) = OkFalse

\* C9 (unknown-element neutrality): for an element u never passed to add,
\* lt(u,a) and lt(a,u) are Ok(false) for every a, in both representations.
C9_UnknownElementNeutral ==
    \A u \in Elems \ mentioned, a \in Elems :
        /\ PairLt(ppo, u, a) = OkFalse /\ PairLt(ppo, a, u) = OkFalse
        /\ DagLt(dpo, u, a) = OkFalse /\ DagLt(dpo, a, u) = OkFalse

\* Some element was never passed to add while two pairs are stored.
C9_Witness ==
    /\ Elems \ mentioned # {}
    /\ Len(ppo) >= 2 /\ Len(dpo.dag.edges) >= 2

\* C10 (self-pair insertion is a no-op): add(x,x) returns Ok and the returned
\* instance has the stored pairs, or the graph and index, it had before.
C10_SelfPairNoOp ==
    [][ \A x \in Elems : call' = <<x, x>> =>
            /\ pairResult' = "Ok" /\ ppo' = ppo
            /\ dagResult' = "Ok" /\ dpo' = dpo
      ]_vars

\* add(x,x) was the last call, on an instance that stores x.
C10_Witness ==
    /\ call # << >> /\ call[1] = call[2]
    /\ call[1] \in Occurring(declared)
    /\ call[1] \in DOMAIN dpo.ids

\* The stored pairs of a PairPartOrd other than the one at position i, and
\* the stored edges of a DagPartOrd other than the one at position i, as
\* pairs of elements.
OtherPairs(pairs, i) ==
    {<<pairs[j].lo, pairs[j].hi>> : j \in (1 .. Len(pairs)) \ {i}}

OtherEdges(self, i) ==
    {<<self.dag.nodes[self.dag.edges[j][1]], self.dag.nodes[self.dag.edges[j][2]]>> :
        j \in (1 .. Len(self.dag.edges)) \ {i}}

\* C11 (only covering facts are stored): no stored pair / edge (lo,hi) has
\* lo = hi, is stored a second time, or is implied by a chain of the other
\* stored pairs / edges.
C11_OnlyCoveringFactsStored ==
    /\ \A i \in 1 .. Len(ppo) :
           /\ ppo[i].lo # ppo[i].hi
           /\ ~ Chain(OtherPairs(ppo, i), ppo[i].lo, ppo[i].hi)
    /\ \A i \in 1 .. Len(dpo.dag.edges) :
           /\ dpo.dag.edges[i][1] # dpo.dag.edges[i][2]
           /\ ~ Chain(OtherEdges(dpo, i),
                      dpo.dag.nodes[dpo.dag.edges[i][1]],
                      dpo.dag.nodes[dpo.dag.edges[i][2]])

\* C12 (reflexivity): le(x,x) returns Ok(true) for every element x, stored
\* or never passed to add, in both representations.
C12_Reflexivity ==
    \A x \in Elems :
        PairLe(ppo, x, x) = OkTrue /\ DagLe(dpo, x, x) = OkTrue

\* One element is stored (and PairPartOrd::lt does not relate it to itself)
\* while another was never passed to add.
C12_Witness ==
    /\ Elems \ mentioned # {}
    /\ \E x \in Occurring(declared) : PairLt(ppo, x, x) = OkFalse

\* C13 (no spurious rejection): add(lo,hi) with lo # hi returns Ok unless hi
\* already precedes lo through a chain of declared pairs; so when every
\* declared pair and the new one have lo < hi, add returns Ok.  (An add that
\* is not Ok leaves the declared pairs as they were before the call.)
C13_NoSpuriousRejection ==
    (call # << >> /\ call[1] # call[2]) =>
        /\ pairResult # "Ok" => Chain(declared, call[2], call[1])
        /\ dagResult # "Ok" => Chain(dagDeclared, call[2], call[1])
        /\ ((\A p \in declared \cup dagDeclared : p[1] < p[2]) /\ call[1] < call[2])
               => (pairResult = "Ok" /\ dagResult = "Ok")

\* An add of two elements that were both stored already is accepted, in
\* both representations.
C13_Witness ==
    /\ call # << >> /\ call[1] # call[2]
    /\ pairResult = "Ok" /\ dagResult = "Ok"
    /\ {call[1], call[2]} \subseteq Occurring(declared \ {call})
    /\ {call[1], call[2]} \subseteq Occurring(dagDeclared \ {call})

\* C14 (validity invariant of PairPartOrd): the instance returned by empty()
\* or by a successful add satisfies valid(): no stored pair has lo = hi, and
\* lt(e,e) is false for every element e that is lo or hi of a stored pair.
C14_PairValidInvariant ==
    /\ PairValid(ppo) = OkTrue
    /\ \A i \in 1 .. Len(ppo) :
           /\ ppo[i].lo # ppo[i].hi
           /\ PairLt(ppo, ppo[i].lo, ppo[i].lo) = OkFalse
           /\ PairLt(ppo, ppo[i].hi, ppo[i].hi) = OkFalse

\* The last add returned Ok with a pair of distinct elements that extends a
\* chain of stored pairs.
C14_Witness ==
    /\ call # << >> /\ call[1] # call[2] /\ pairResult = "Ok"
    /\ \E i \in 1 .. Len(ppo) : ppo[i].hi = call[1]

\* C15 (atomic failure of DagPartOrd::add): whenever add(lo,hi) returns the
\* cycle error, the graph and the identity index at the moment of return are
\* those at entry, and both lo and hi were in the identity index at entry.
C15_DagAddFailsAtomically ==
    \A lo \in Elems, hi \in Elems :
        \A r \in {DagAdd(dpo, lo, hi)} :
            r.res = "Err" =>
                /\ r.self = dpo
                /\ lo \in DOMAIN dpo.ids /\ hi \in DOMAIN dpo.ids

\* DagPartOrd::add returned the cycle error on a graph of two edges.
C15_Witness ==
    /\ dagResult = "Err"
    /\ Len(dpo.dag.edges) >= 2
    /\ DagAdd(dpo, call[1], call[2]).res = "Err"

\* Node b is reached from node a over zero or more (at most n) edges of E.
RECURSIVE NodeReach(_, _, _, _)
NodeReach(E, a, b, n) ==
    \/ a = b
    \/ /\ n > 0
       /\ \E e \in E : e[1] = a /\ NodeReach(E, e[2], b, n - 1)

EdgeSet(dag) == {dag.edges[i] : i \in 1 .. Len(dag.edges)}

\* C16 (DagPartOrd::lt is reachability including the start node): lt(lo,hi)
\* is true iff lo and hi are in the identity index and hi's node is reached
\* from lo's node over zero or more edges; so lt(x,x) is true exactly when x
\* was inserted by an add with a distinct partner.
C16_DagLtReachability ==
    /\ \A lo \in Elems, hi \in Elems :
           DagLt(dpo, lo, hi) =
               AsResult(/\ lo \in DOMAIN dpo.ids
                        /\ hi \in DOMAIN dpo.ids
                        /\ NodeReach(EdgeSet(dpo.dag), dpo.ids[lo], dpo.ids[hi],
                                     Len(dpo.dag.edges)))
    /\ \A x \in Elems :
           DagLt(dpo, x, x) = AsResult(x \in Occurring(dagDeclared))

\* On a graph of two edges, lt(x,x) is true for a stored x and false for an
\* unknown one, and some lt(lo,hi) is true while lt(hi,lo) is false.
C16_Witness ==
    /\ Len(dpo.dag.edges) >= 2
    /\ \E x \in Elems : DagLt(dpo, x, x) = OkTrue
    /\ \E y \in Elems : DagLt(dpo, y, y) = OkFalse
    /\ \E lo \in Elems, hi \in Elems :
           /\ lo # hi
           /\ DagLt(dpo, lo, hi) = OkTrue /\ DagLt(dpo, hi, lo) = OkFalse

\* C17 (monotonicity of the order): an le(x,y) that is true stays true after
\* every further add; a successful add with lo # hi appends exactly one pair
\* / edge (lo,hi) and leaves the earlier pairs, edges, nodes and index
\* entries as they were.
C17_Monotonic ==
    [][ /\ \A x \in Elems, y \in Elems :
               /\ PairLe(ppo, x, y) = OkTrue => PairLe(ppo', x, y) = OkTrue
               /\ DagLe(dpo, x, y) = OkTrue => DagLe(dpo', x, y) = OkTrue
        /\ (pairResult' = "Ok" /\ call'[1] # call'[2]) =>
               ppo' = Append(ppo, Pair(call'[1], call'[2]))
        /\ (dagResult' = "Ok" /\ call'[1] # call'[2]) =>
               /\ Len(dpo'.dag.edges) = Len(dpo.dag.edges) + 1
               /\ SubSeq(dpo'.dag.edges, 1, Len(dpo.dag.edges)) = dpo.dag.edges
               /\ dpo'.dag.edges[Len(dpo'.dag.edges)] =
                      <<dpo'.ids[call'[1]], dpo'.ids[call'[2]]>>
               /\ SubSeq(dpo'.dag.nodes, 1, Len(dpo.dag.nodes)) = dpo.dag.nodes
               /\ \A e \in DOMAIN dpo.ids : dpo'.ids[e] = dpo.ids[e]
      ]_vars

\* A pair declared earlier is still ordered after a later successful add of
\* another pair, in both representations.
C17_Witness ==
    /\ call # << >> /\ call[1] # call[2]
    /\ pairResult = "Ok" /\ dagResult = "Ok"
    /\ \E p \in declared \cap dagDeclared :
           /\ p # call
           /\ PairLe(ppo, p[1], p[2]) = OkTrue
           /\ DagLe(dpo, p[1], p[2]) = OkTrue

\* The orders in which n add calls can be made, for every n up to MaxPairs.
Permutations(n) ==
    {f \in [1 .. n -> 1 .. n] : \A i \in 1 .. n, j \in 1 .. n : i # j => f[i] # f[j]}

AllPermutations == [n \in 0 .. MaxPairs |-> Permutations(n)]

Permuted(seq, f) == [i \in 1 .. Len(seq) |-> seq[f[i]]]

\* The adds of the pairs of seq, in order, starting from self: the outcome of
\* the first add that is not Ok, or the last instance.
RECURSIVE PairAddAll(_, _)
PairAddAll(self, seq) ==
    IF seq = << >> THEN [res |-> "Ok", inst |-> <<self>>]
    ELSE \* one evaluation of add per step
         CHOOSE out \in {IF r.res = "Ok" THEN PairAddAll(r.inst[1], Tail(seq)) ELSE r :
                            r \in {PairAdd(self, Head(seq).lo, Head(seq).hi)}} : TRUE

\* What a PairPartOrd answers to lt and le, for all elements.
LtAndLe(ltResult, x, y) == <<ltResult, Le(ltResult, x, y)>>

PairAnswers(pairs) ==
    [x \in Elems, y \in Elems |-> LtAndLe(PairLt(pairs, x, y), x, y)]

\* C18 (insertion order is not meaningful), under PairSpec: the instance
\* that a successful add returns is what the adds of its pairs give, and when
\* the same pairs are added in another order and every add succeeds, lt and
\* le answer as they do in that instance, for all elements.
C18_OrderIndependent ==
    (call # << >> /\ call[1] # call[2] /\ pairResult = "Ok") =>
        /\ PairAddAll(PairEmpty, ppo) = [res |-> "Ok", inst |-> <<ppo>>]
        /\ \A mine \in {PairAnswers(ppo)} :
               \A f \in AllPermutations[Len(ppo)] :
                   \A r \in {PairAddAll(PairEmpty, Permuted(ppo, f))} :
                       r.res = "Ok" => PairAnswers(r.inst[1]) = mine

\* Two different stored pairs start at the same element, and added in the
\* other order they are accepted too.
C18_Witness ==
    /\ call # << >> /\ call[1] # call[2] /\ pairResult = "Ok"
    /\ \E i \in 1 .. Len(ppo), j \in 1 .. Len(ppo) :
           ppo[i].lo = ppo[j].lo /\ ppo[i].hi # ppo[j].hi
    /\ \E f \in AllPermutations[Len(ppo)] :
           /\ Permuted(ppo, f) # ppo
           /\ PairAddAll(PairEmpty, Permuted(ppo, f)).res = "Ok"

\* C19 (identity-index consistency of DagPartOrd): the index holds exactly
\* the elements of the successful adds with a distinct partner; index and
\* nodes correspond one to one: each node's element is indexed to that node,
\* each index entry names a node carrying that element, and no two nodes
\* carry the same element.
C19_IndexConsistent ==
    /\ DOMAIN dpo.ids = Occurring(dagDeclared)
    /\ \A n \in 1 .. Len(dpo.dag.nodes) :
           /\ dpo.dag.nodes[n] \in DOMAIN dpo.ids
           /\ dpo.ids[dpo.dag.nodes[n]] = n
    /\ \A e \in DOMAIN dpo.ids :
           /\ dpo.ids[e] \in 1 .. Len(dpo.dag.nodes)
           /\ dpo.dag.nodes[dpo.ids[e]] = e
    /\ Len(dpo.dag.nodes) = Cardinality(DOMAIN dpo.ids)

\* Some element was passed to two successful adds with different partners.
C19_Witness ==
    \E p \in dagDeclared, q \in dagDeclared :
        /\ p # q
        /\ {p[1], p[2]} \cap {q[1], q[2]} # {}
        /\ Len(dpo.dag.nodes) = Cardinality(Occurring(dagDeclared))

====
